---- MODULE Spec2Model ----
(***************************************************************************)
(* The privilege-separation RPC of cluelesshd (src/bin/cluelesshd/src/     *)
(* rpc.rs): the monitor's Server, the auth process's Client and the        *)
(* datagram socket pair between them (Spec); the bytes of one datagram     *)
(* through receive_with_fds (SpecTransport); and the client connection     *)
(* driver of ssh-tokio (src/lib/ssh-tokio/src/client.rs) with its channel  *)
(* table and mailboxes (SpecDriver; SpecDriverFair is the driver polled    *)
(* by the runtime, SpecMailboxes the driver and the owner of one channel   *)
(* with a peer that sends data). Each specification moves its own          *)
(* variables and leaves the others as Init sets them.                      *)
(*                                                                         *)
(* Option<T> is a sequence: None is <<>>, Some(x) is <<x>>.                *)
(* Result<T, String> is a pair: <<"Ok", value>> or <<"Err", message>>.     *)
(* A reply payload is a Result whose value is written as a string.         *)
(* A file descriptor is [kind, of]: what it refers to (which end), and     *)
(* which PTY or child it belongs to, numbered in the order of creation.    *)
(*                                                                         *)
(* What the model takes from the environment:                              *)
(*  - the socket pair delivers every datagram, in order: Server keeps both *)
(*    ends open (fields server and client), and a full socket makes        *)
(*    async_io wait, so sendmsg is taken not to fail;                      *)
(*  - check_pubkey, verify_signature, Pty::new, try_clone,                 *)
(*    start_session_for_command and Command::spawn may each fail, and      *)
(*    Child::wait may return an exit code, no code, or an error: the       *)
(*    outcome is chosen when the request is serviced (EnvFor);             *)
(*  - into_owned_fd on the pipes of a child just spawned does not fail;    *)
(*  - Child::wait returns: a Wait is serviced in one step, once the child  *)
(*    has exited.                                                          *)
(***************************************************************************)
EXTENDS Integers, Sequences, FiniteSets, TLC

VARIABLES
    authenticated_user, \* Server.authenticated_user : Option<User>
    pty_user,           \* Server.pty_user : Option<OwnedFd>
    shell_process,      \* Server.shell_process : Option<Child>
    running,            \* Server::process has not returned
    to_server,          \* datagrams in flight, client socket -> server socket
    to_client,          \* datagrams in flight, server socket -> client socket
    client_pc,          \* Client: "idle", or "recv" inside recv_response_ancillary
    client_call,        \* Client: the call in progress (number and request)
    client_ret,         \* Client: what the last finished call returned
    n_calls,            \* number of Client calls started
    n_spawned,          \* children the monitor has spawned so far
    n_live,             \* children spawned by the monitor and not yet waited for
    verified_ok,        \* history: some VerifySignature was answered Ok(true)
    first_user,         \* history: the user stored by the first successful VerifySignature
    last,               \* history: the request serviced last, and what servicing it did
    wire,               \* transport: the datagram in the socket, its bytes and descriptors
    received,           \* transport: what receive_with_fds returned for the last datagram
    proto,              \* ClientConnection.proto: the protocol state machine, as the driver sees it
    channels,           \* ClientConnection.channels : HashMap<ChannelNumber, ChannelState>
    ready,              \* the oneshot of each channel opened: what ready_send sent
    updates,            \* the updates mailbox of each channel opened (mpsc::channel(10))
    operations,         \* the operations mailbox (operations_send / operations_recv)
    channel_ops,        \* the channel operations mailbox (channel_ops_send / channel_ops_recv)
    tasks,              \* the credential tasks spawned and not finished, by kind
    driver_pc,          \* where the driver is: "idle", inside progress(), or "dropped"
    progress_ret,       \* what the last finished progress() call returned
    outcome,            \* what wait_ready returned for each channel opened
    update_ret,         \* what the last next_update returned for each channel opened
    n_reads,            \* number of reads of the stream that returned
    last_update,        \* history: the channel update handled last, and the entry it found
    last_op,            \* history: the operation dequeued last, and what was done with it
    connect_pc,         \* connect(): "loop" inside its loop, or what it returned, "Ok" or "Err"
    eof,                \* the stream has reached its end: a read has returned 0 bytes
    emitted,            \* history: the updates the state machine emitted for each Ready channel and next_update has not returned yet
    in_order,           \* history: every next_update returned the oldest update of `emitted`
    channel_pc          \* the owner of each Channel: "idle", or suspended in "send_operation"

\* the variables of the RPC (Server and Client)
rpc_vars == <<authenticated_user, pty_user, shell_process, running,
              to_server, to_client, client_pc, client_call, client_ret,
              n_calls, n_spawned, n_live, verified_ok, first_user, last>>

\* the variables of the byte-level view of one socket
transport_vars == <<wire, received>>

\* the variables of the client connection driver (ssh-tokio, client.rs)
driver_vars == <<proto, channels, ready, updates, operations, channel_ops, tasks,
                 driver_pc, progress_ret, outcome, update_ret, n_reads,
                 last_update, last_op, connect_pc, eof, emitted, in_order,
                 channel_pc>>

vars == <<rpc_vars, transport_vars, driver_vars>>

-----------------------------------------------------------------------------
(* Bounds of the model *)

\* the number of calls the Client makes
MaxCalls == 5

-----------------------------------------------------------------------------
(* Values *)

None == <<>>

Some(x) == <<x>>

Ok(v) == <<"Ok", v>>

Err(msg) == <<"Err", msg>>

\* users::User, as the user directory knows them
Users ==
    { [name |-> "alice", uid |-> 1000, gid |-> 1000,
       home |-> "/home/alice", shell |-> "/bin/sh"],
      [name |-> "bob", uid |-> 1001, gid |-> 1001,
       home |-> "/home/bob", shell |-> "/bin/zsh"] }

\* Server.host_keys: the public keys of the loaded private keys
host_keys == {"hostkey"}

\* the width of Winsize's fields (u16)
U16 == 65536

\* rustix::cmsg_space!(ScmRights(3)): the ancillary buffer holds three descriptors
MaxFds == 3

Fd(kind, of) == [kind |-> kind, of |-> of]

-----------------------------------------------------------------------------
(* enum Request and its payloads *)

SignRequests ==
    { [tag |-> "Sign", hash |-> "hash", public_key |-> k] :
        k \in {"hostkey", "otherkey"} }

CheckPublicKeyRequests ==
    { [tag |-> "CheckPublicKey", user |-> u, session_identifier |-> "sid",
       pubkey_alg_name |-> "ssh-ed25519", pubkey |-> "pk"] :
        u \in {"alice"} }

VerifySignatureRequests ==
    { [tag |-> "VerifySignature", user |-> u, session_identifier |-> "sid",
       pubkey_alg_name |-> "ssh-ed25519", pubkey |-> "pk", signature |-> "sig"] :
        u \in {"alice", "bob"} }

PtyRequest ==
    { [tag |-> "PtyReq", height_rows |-> 24, width_chars |-> w,
       width_px |-> 0, height_px |-> 0, term_modes |-> <<>>] :
        w \in {80} }

ShellRequest ==
    { [tag |-> "Shell", pty_term |-> t, command |-> ce[1], env |-> ce[2]] :
        t \in {None, Some("xterm")},
        ce \in { <<None, <<>> >>, <<Some("ls"), << <<"USER", "root">> >> >> } }

WaitRequests == { [tag |-> "Wait"] }

Request ==
    SignRequests \cup CheckPublicKeyRequests \cup VerifySignatureRequests
        \cup PtyRequest \cup ShellRequest \cup WaitRequests

-----------------------------------------------------------------------------
(* What the monitor's collaborators can answer while a request is serviced *)

NoEnv ==
    [check |-> Ok("true"), verify |-> Ok(None), pty |-> "Ok", clone |-> "Ok",
     session |-> "Ok", spawn |-> "Ok", wait |-> Ok("Some(0)")]

\* crate::auth::check_pubkey: Ok(bool) or an error
check_pubkey(req) == {Ok("true"), Ok("false"), Err("check_pubkey failed")}

\* crate::auth::verify_signature: Ok(Some(user)), Ok(None) or an error
verify_signature(req) ==
    {Err("verify_signature failed"), Ok(None)}
        \cup { Ok(Some(u)) : u \in {x \in Users : x.name = req.user} }

\* the outcomes of the fallible calls of one request's handler
EnvFor(req) ==
    CASE req.tag = "CheckPublicKey" ->
            { [NoEnv EXCEPT !.check = c] : c \in check_pubkey(req) }
      [] req.tag = "VerifySignature" ->
            { [NoEnv EXCEPT !.verify = v] : v \in verify_signature(req) }
      [] req.tag = "PtyReq" ->
            { [NoEnv EXCEPT !.pty = "Ok", !.clone = c] : c \in {"Ok", "Err"} }
                \cup { [NoEnv EXCEPT !.pty = "Err"] }
      [] req.tag = "Shell" ->
            { [NoEnv EXCEPT !.clone = c, !.session = s, !.spawn = p] :
                c \in {"Ok", "Err"}, s \in {"Ok", "Err"}, p \in {"Ok", "Err"} }
      [] req.tag = "Wait" ->
            { [NoEnv EXCEPT !.wait = w] :
                w \in {Ok("Some(0)"), Ok("None"), Err("wait failed")} }
      [] OTHER -> {NoEnv}

-----------------------------------------------------------------------------
(* The datagram transport *)

\* send_with_fds: one datagram, the payload and the descriptors that fit the
\* ancillary buffer (SendAncillaryBuffer::push adds nothing when they do not fit,
\* and its result is not looked at)
send_with_fds(data, fds) ==
    [payload |-> data, fds |-> IF Len(fds) <= MaxFds THEN fds ELSE <<>>]

\* receive_with_fds: Err when the payload does not decode, else the message and
\* the descriptors of the datagram
receive_with_fds(d) ==
    IF d.decodable THEN Ok([msg |-> d.payload, fds |-> d.fds])
    ELSE Err("invalid request")

-----------------------------------------------------------------------------
(* Server: the replies *)

\* Server::respond_ancillary: the datagrams it sends
respond_ancillary(resp, fds) == << send_with_fds(resp, fds) >>

\* Server::respond
respond(resp) == respond_ancillary(resp, <<>>)

\* Server::respond_err
respond_err(msg) == respond(Err(msg))

-----------------------------------------------------------------------------
(* Server: servicing one request *)

\* The fields of Server a handler reads and writes
Self ==
    [authenticated_user |-> authenticated_user,
     pty_user |-> pty_user,
     shell_process |-> shell_process]

\* What a handler did: the Server it leaves, the datagrams it sent in order, its
\* own Result ("Ok", or "Err" when a `?` returned early), the child it spawned,
\* the PTY it allocated, whether it called the signature verifier, and whether
\* it waited for the child to exit.
Done(self, replies) ==
    [self |-> self, replies |-> replies, ret |-> "Ok",
     child |-> None, pty |-> None, verifier |-> FALSE, waited |-> FALSE]

\* Request::Sign
receive_Sign(self, req) ==
    IF req.public_key \notin host_keys
    THEN Done(self, respond_err("missing private key"))
    ELSE Done(self, respond(Ok("signature")))

\* Request::CheckPublicKey
receive_CheckPublicKey(self, req, env) ==
    Done(self, respond(env.check))

\* Request::VerifySignature: the reply sent when a user is already authenticated
\* (there is no return after it)
already_authenticated(self) ==
    IF self.authenticated_user # None
    THEN respond_err("user already authenticated")
    ELSE <<>>

\* Request::VerifySignature: the closure mapping the verifier's answer, which
\* stores the user
store_user(self, is_ok) ==
    IF is_ok[1] = "Ok" /\ is_ok[2] # None
    THEN [self EXCEPT !.authenticated_user = is_ok[2]]
    ELSE self

\* Request::VerifySignature
receive_VerifySignature(self, req, env) ==
    LET is_ok == env.verify
        resp == IF is_ok[1] = "Err" THEN is_ok
                ELSE IF is_ok[2] # None THEN Ok("true") ELSE Ok("false")
    IN  [Done(store_user(self, is_ok),
              already_authenticated(self) \o respond(resp))
            EXCEPT !.verifier = TRUE]

\* the Winsize handed to Pty::new
Winsize(req) ==
    [ws_row |-> req.width_chars % U16,
     ws_col |-> req.height_rows % U16,
     ws_xpixel |-> req.width_px % U16,
     ws_ypixel |-> req.height_px % U16]

\* crate::pty::Pty::new, when it succeeds
Pty(winsize) ==
    [controller |-> Fd("pty_controller", 1),
     user_pty |-> Fd("pty_user", 1),
     winsize |-> winsize]

\* pty_reply_fds, handing out the subordinate end
pty_reply_fds_subordinate(pty) == << pty.user_pty >>

\* Request::PtyReq: the descriptors attached to the reply
pty_reply_fds(pty) == << pty.controller >>

\* Request::PtyReq
receive_PtyReq(self, req, env) ==
    IF self.pty_user # None
    THEN Done(self, respond_err("already requests pty"))
    ELSE IF env.pty = "Err"
    THEN Done([self EXCEPT !.pty_user = None],
              respond_ancillary(Err("pty allocation failed"), <<>>))
    ELSE LET pty == Pty(Winsize(req)) IN
         IF env.clone = "Err"
         THEN [Done(self, <<>>) EXCEPT !.ret = "Err", !.pty = Some(pty)]
         ELSE [Done([self EXCEPT !.pty_user = Some(pty.user_pty)],
                    respond_ancillary(Ok("()"), pty_reply_fds(pty)))
                 EXCEPT !.pty = Some(pty)]

\* Command::env: set one variable of the child's environment
SetEnv(e, k, v) ==
    [x \in (DOMAIN e) \cup {k} |-> IF x = k THEN v ELSE e[x]]

\* the loop over req.env in Server::shell: cmd.env(k, v) for each pair, in order
RECURSIVE ApplyEnv(_, _)
ApplyEnv(e, pairs) ==
    IF pairs = <<>> THEN e
    ELSE ApplyEnv(SetEnv(e, Head(pairs)[1], Head(pairs)[2]), Tail(pairs))

\* crate::pty::start_session_for_command, when it succeeds: the child gets the
\* subordinate PTY as its terminal and TERM
start_session_for_command(pty_fd, term, cmd) ==
    [cmd EXCEPT !.stdio = "pty", !.tty = Some(pty_fd),
                !.env = SetEnv(cmd.env, "TERM", term)]

\* Server::shell: the Command it builds, up to cmd.spawn()
Command(user, req, pty_fd) ==
    LET c0 == [program |-> user.shell,
               args |-> IF req.command # None THEN <<"-c", req.command[1]>> ELSE <<>>,
               env |-> <<>>, stdio |-> "inherit", tty |-> None,
               cwd |-> "", uid |-> 0, gid |-> 0]
        c1 == IF req.pty_term # None
              THEN start_session_for_command(pty_fd[1], req.pty_term[1], c0)
              ELSE [c0 EXCEPT !.stdio = "piped"]
        c2 == [c1 EXCEPT !.cwd = user.home,
                         !.env = SetEnv(c1.env, "USER", user.name),
                         !.uid = user.uid,
                         !.gid = user.gid]
    IN  [c2 EXCEPT !.env = ApplyEnv(c2.env, req.env)]

\* shell_fds, taking the child's pipes whether or not a PTY is used
shell_fds_always(has_pty, seq) ==
    << Fd("stdin", seq), Fd("stdout", seq), Fd("stderr", seq) >>

\* Server::shell: the descriptors it returns for the child `seq`
shell_fds(has_pty, seq) ==
    IF ~has_pty
    THEN << Fd("stdin", seq), Fd("stdout", seq), Fd("stderr", seq) >>
    ELSE <<>>

\* pty_agreement, with the ensure! left out
pty_agreement_unchecked(self, req) == TRUE

\* Server::shell: the ensure! on the PTY agreement of client and server
pty_agreement(self, req) ==
    (req.pty_term # None) = (self.pty_user # None)

\* Server::shell: [self, result, child]; result is Ok(fds) or Err(message)
shell(self, user, req, env, seq) ==
    LET has_pty == req.pty_term # None
        failed(msg) == [self |-> self, result |-> Err(msg), child |-> None]
    IN  IF ~pty_agreement(self, req)
        THEN failed("Mismatch between client and server PTY requests")
        ELSE IF has_pty /\ self.pty_user = None
        THEN failed("no pty requested before")
        ELSE IF has_pty /\ env.clone = "Err"
        THEN failed("try_clone failed")
        ELSE IF has_pty /\ env.session = "Err"
        THEN failed("start_session_for_command failed")
        ELSE IF env.spawn = "Err"
        THEN failed("spawn failed")
        ELSE LET child == [id |-> seq,
                           cmd |-> Command(user, req, self.pty_user)]
             IN  [self |-> [self EXCEPT !.shell_process = Some(child)],
                  result |-> Ok(shell_fds(has_pty, seq)),
                  child |-> Some(child)]

\* process_running, with the check forgotten
process_running_unchecked(self) == FALSE

\* Request::Shell: the check that no child is running
process_running(self) == self.shell_process # None

\* shell_user, falling back to a user of the directory when none is authenticated
shell_user_default(self) ==
    IF self.authenticated_user = None
    THEN Some(CHOOSE u \in Users : u.name = "alice")
    ELSE self.authenticated_user

\* Request::Shell: the user the child is run as
shell_user(self) == self.authenticated_user

\* Request::Shell
receive_Shell(self, req, env, seq) ==
    IF process_running(self)
    THEN Done(self, respond_err("process already running"))
    ELSE IF shell_user(self) = None
    THEN Done(self, respond_err("unauthenticated"))
    ELSE LET r == shell(self, shell_user(self)[1], req, env, seq)
             fds == IF r.result[1] = "Ok" THEN r.result[2] ELSE <<>>
             resp == IF r.result[1] = "Ok" THEN Ok("()") ELSE r.result
         IN  [Done(r.self, respond_ancillary(resp, fds)) EXCEPT !.child = r.child]

\* receive_Wait, failing the handler (bail!) when no child runs
receive_Wait_bail(self, env) ==
    IF self.shell_process = None
    THEN [Done(self, <<>>) EXCEPT !.ret = "Err"]
    ELSE [Done([self EXCEPT !.shell_process = None], respond(env.wait))
            EXCEPT !.waited = TRUE]

\* receive_Wait, without the closing `self.shell_process = None`
receive_Wait_keep_child(self, env) ==
    IF self.shell_process = None
    THEN Done(self, respond_err("no child running"))
    ELSE [Done(self, respond(env.wait)) EXCEPT !.waited = TRUE]

\* Request::Wait
receive_Wait(self, env) ==
    IF self.shell_process = None
    THEN Done(self, respond_err("no child running"))
    ELSE [Done([self EXCEPT !.shell_process = None], respond(env.wait))
            EXCEPT !.waited = TRUE]

\* Server::receive_message
receive_message(self, req, env, seq) ==
    CASE req.tag = "Sign" -> receive_Sign(self, req)
      [] req.tag = "CheckPublicKey" -> receive_CheckPublicKey(self, req, env)
      [] req.tag = "VerifySignature" -> receive_VerifySignature(self, req, env)
      [] req.tag = "PtyReq" -> receive_PtyReq(self, req, env)
      [] req.tag = "Shell" -> receive_Shell(self, req, env, seq)
      [] req.tag = "Wait" -> receive_Wait(self, env)

-----------------------------------------------------------------------------
(* The state machine *)

Init ==
    /\ authenticated_user = None
    /\ pty_user = None
    /\ shell_process = None
    /\ running = TRUE
    /\ to_server = <<>>
    /\ to_client = <<>>
    /\ client_pc = "idle"
    /\ client_call = None
    /\ client_ret = None
    /\ n_calls = 0
    /\ n_spawned = 0
    /\ n_live = 0
    /\ verified_ok = FALSE
    /\ first_user = None
    /\ last = None
    /\ wire = None
    /\ received = None
    /\ proto = [phase |-> "kex", requests |-> <<>>, updates |-> <<>>,
                next_channel |-> 0]
    /\ channels = [n \in {} |-> "Pending"]
    /\ ready = [n \in {} |-> None]
    /\ updates = [n \in {} |-> <<>>]
    /\ operations = <<>>
    /\ channel_ops = <<>>
    /\ tasks = [Password |-> 0, PrivateKeySign |-> 0]
    /\ driver_pc = "idle"
    /\ progress_ret = None
    /\ outcome = [n \in {} |-> None]
    /\ update_ret = [n \in {} |-> None]
    /\ n_reads = 0
    /\ last_update = None
    /\ last_op = None
    /\ connect_pc = "loop"
    /\ eof = FALSE
    /\ emitted = [n \in {} |-> <<>>]
    /\ in_order = TRUE
    /\ channel_pc = [n \in {} |-> "idle"]

\* the datagrams of one handler, each marked with the request it answers
Replies(replies, seq) ==
    [i \in 1..Len(replies) |->
        [for |-> seq, payload |-> replies[i].payload, fds |-> replies[i].fds]]

\* Server::process, one iteration of its loop: receive a datagram; return when it
\* does not decode or carries descriptors (Client::send_request sends neither);
\* else service the request, and return when the handler failed
process ==
    /\ running
    /\ to_server # <<>>
    /\ to_server' = Tail(to_server)
    /\ LET d == Head(to_server)
           recv == receive_with_fds(d)
       IN  IF recv[1] = "Err" \/ recv[2].fds # <<>>
           THEN /\ running' = FALSE
                /\ UNCHANGED <<authenticated_user, pty_user, shell_process,
                               to_client, n_spawned, n_live, verified_ok,
                               first_user, last>>
           ELSE \E env \in EnvFor(recv[2].msg) :
                LET req == recv[2].msg
                    r == receive_message(Self, req, env, n_spawned + 1)
                    sent == Replies(r.replies, d.seq)
                IN  /\ authenticated_user' = r.self.authenticated_user
                    /\ pty_user' = r.self.pty_user
                    /\ shell_process' = r.self.shell_process
                    /\ running' = (r.ret = "Ok")
                    /\ to_client' = to_client \o sent
                    /\ n_spawned' = n_spawned + (IF r.child # None THEN 1 ELSE 0)
                    /\ n_live' = n_live + (IF r.child # None THEN 1 ELSE 0)
                                        - (IF r.waited THEN 1 ELSE 0)
                    /\ verified_ok' =
                          (verified_ok \/
                             (req.tag = "VerifySignature" /\
                                \E i \in 1..Len(sent) : sent[i].payload = Ok("true")))
                    /\ first_user' =
                          IF first_user = None THEN r.self.authenticated_user
                          ELSE first_user
                    /\ last' = Some([seq |-> d.seq, req |-> req, pre |-> Self,
                                     replies |-> sent,
                                     ret |-> r.ret, child |-> r.child,
                                     pty |-> r.pty, verifier |-> r.verifier])
    /\ UNCHANGED <<client_pc, client_call, client_ret, n_calls>>
    /\ UNCHANGED <<transport_vars, driver_vars>>

\* Client::send_request, the first half of every Client method
send_request(req) ==
    /\ client_pc = "idle"
    /\ n_calls < MaxCalls
    /\ n_calls' = n_calls + 1
    /\ client_call' = Some([n |-> n_calls + 1, req |-> req])
    /\ client_pc' = "recv"
    /\ client_ret' = None
    /\ to_server' = Append(to_server,
                       [seq |-> n_calls + 1, payload |-> req,
                        decodable |-> TRUE, fds |-> <<>>])
    /\ UNCHANGED <<authenticated_user, pty_user, shell_process, running,
                   to_client, n_spawned, n_live, verified_ok, first_user, last>>
    /\ UNCHANGED <<transport_vars, driver_vars>>

\* the type R a Client method gives recv_response_ancillary::<R>
ResponseType(tag) ==
    CASE tag = "Sign" -> "Signature"
      [] tag \in {"CheckPublicKey", "VerifySignature"} -> "bool"
      [] tag \in {"PtyReq", "Shell"} -> "()"
      [] tag = "Wait" -> "Option<i32>"

\* the reply values of a type
ValuesOf(R) ==
    CASE R = "Signature" -> {"signature"}
      [] R = "bool" -> {"false", "true"}
      [] R = "()" -> {"()"}
      [] R = "Option<i32>" -> {"None", "Some(0)"}

\* postcard::to_allocvec of the Ok value of a reply, after Result's variant
\* byte: () takes no byte, a bool one, Option a variant byte and its value, and
\* Signature (an enum) a variant byte and its body, written here as one byte
to_allocvec(v) ==
    CASE v = "()" -> <<>>
      [] v = "false" -> <<0>>
      [] v = "true" -> <<1>>
      [] v = "None" -> <<0>>
      [] v = "Some(0)" -> <<1, 0>>
      [] v = "signature" -> <<0, 64>>

IsPrefix(p, s) == Len(p) <= Len(s) /\ SubSeq(s, 1, Len(p)) = p

\* postcard::from_bytes::<ResponseResult<R>> of the bytes of the reply `resp`:
\* Some(reply), or None when the bytes are no ResponseResult<R>. An Err reply
\* is the variant byte and a String whatever R is; an Ok reply decodes when the
\* encoding of a value of R begins its bytes (the bytes after it are ignored)
from_bytes(R, resp) ==
    IF resp[1] = "Err" THEN Some(resp)
    ELSE LET data == to_allocvec(resp[2])
             fits == { v \in ValuesOf(R) : IsPrefix(to_allocvec(v), data) }
         IN  IF fits = {} THEN None ELSE Some(Ok(CHOOSE v \in fits : TRUE))

\* what the Client method of request `req` returns for the datagram `d`:
\* recv_response_ancillary::<R>, then what the method does with the descriptors
\* (pty_req checks their count, shell returns them, request_response drops them)
client_result(req, d) ==
    LET resp == from_bytes(ResponseType(req.tag), d.payload) IN
    IF resp = None THEN Err("failed to recv")
    ELSE IF resp[1][1] = "Err" THEN resp[1]
    ELSE IF req.tag = "PtyReq"
    THEN IF Len(d.fds) = 1 THEN Ok(d.fds)
         ELSE Err("Incorrect amount of FDs received")
    ELSE IF req.tag = "Shell" THEN Ok(d.fds)
    ELSE resp[1]

\* Client::recv_response_ancillary, the second half of every Client method
recv_response_ancillary ==
    /\ client_pc = "recv"
    /\ to_client # <<>>
    /\ to_client' = Tail(to_client)
    /\ client_ret' = Some([call |-> client_call[1].n,
                           for |-> Head(to_client).for,
                           nfds |-> Len(Head(to_client).fds),
                           result |-> client_result(client_call[1].req, Head(to_client))])
    /\ client_pc' = "idle"
    /\ UNCHANGED <<authenticated_user, pty_user, shell_process, running,
                   to_server, client_call, n_calls, n_spawned, n_live,
                   verified_ok, first_user, last>>
    /\ UNCHANGED <<transport_vars, driver_vars>>

Next ==
    \/ process
    \/ \E req \in Request : send_request(req)
    \/ recv_response_ancillary

Spec == Init /\ [][Next]_vars

-----------------------------------------------------------------------------
(* The bytes of a datagram: what receive_with_fds does with a payload of any  *)
(* length. The byte-level view covers the two requests whose fields are       *)
(* numbers and bytes, Wait and PtyReq; no payload here begins with the        *)
(* variant byte of another request.                                           *)

\* receive_with_fds: `let mut data = [0; 1024]`
BufSize == 1024

Min(a, b) == IF a < b THEN a ELSE b

Zeros(n) == [i \in 1..n |-> 0]

\* postcard's varint: seven bits a byte, low bits first, the high bit set on
\* every byte but the last
RECURSIVE varint(_)
varint(n) == IF n < 128 THEN <<n>> ELSE <<128 + (n % 128)>> \o varint(n \div 128)

\* the varint at position i of `data`: <<value, next position>>, or <<>> when
\* the bytes end inside it
RECURSIVE take_varint(_, _)
take_varint(data, i) ==
    IF i > Len(data) THEN <<>>
    ELSE IF data[i] < 128 THEN <<data[i], i + 1>>
    ELSE LET r == take_varint(data, i + 1)
         IN  IF r = <<>> THEN <<>> ELSE <<(data[i] - 128) + 128 * r[1], r[2]>>

\* postcard::to_allocvec(&req) of Client::send_request: the variant's index
\* (PtyReq 3, Wait 5), then the fields in the order of the struct, a Vec<u8> as
\* its length and its bytes
to_allocvec_request(req) ==
    IF req.tag = "Wait" THEN <<5>>
    ELSE <<3>> \o varint(req.height_rows) \o varint(req.width_chars)
             \o varint(req.width_px) \o varint(req.height_px)
             \o varint(Len(req.term_modes)) \o req.term_modes

\* the fields of a PtyRequest read from position i of `data`: the four u32 and
\* term_modes, or <<>> when the bytes end before the last field does
take_PtyRequest(data, i) ==
    LET h == take_varint(data, i) IN
    IF h = <<>> THEN <<>> ELSE
    LET w == take_varint(data, h[2]) IN
    IF w = <<>> THEN <<>> ELSE
    LET wp == take_varint(data, w[2]) IN
    IF wp = <<>> THEN <<>> ELSE
    LET hp == take_varint(data, wp[2]) IN
    IF hp = <<>> THEN <<>> ELSE
    LET n == take_varint(data, hp[2]) IN
    IF n = <<>> THEN <<>> ELSE
    IF n[2] + n[1] - 1 > Len(data) THEN <<>>
    ELSE << [tag |-> "PtyReq", height_rows |-> h[1], width_chars |-> w[1],
             width_px |-> wp[1], height_px |-> hp[1],
             term_modes |-> SubSeq(data, n[2], n[2] + n[1] - 1)] >>

\* postcard::from_bytes::<Request>(data): the request that begins `data`, the
\* bytes after it ignored; an error when the bytes end inside the request or
\* begin with no variant of Request
from_bytes_request(data) ==
    IF data = <<>> THEN Err("invalid request")
    ELSE IF data[1] = 5 THEN Ok([tag |-> "Wait"])
    ELSE IF data[1] = 3
    THEN LET r == take_PtyRequest(data, 2)
         IN  IF r = <<>> THEN Err("invalid request") ELSE Ok(r[1])
    ELSE Err("invalid request")

\* rustix::net::recvmsg into `data`: the first BufSize bytes of the datagram
\* (read.bytes of them); the flags of the result are not looked at
recvmsg(bytes) == SubSeq(bytes, 1, Min(Len(bytes), BufSize))

\* the datagram `w` as receive_with_fds has it after recvmsg and from_bytes
Datagram(w) ==
    LET r == from_bytes_request(recvmsg(w.bytes))
    IN  [seq |-> 0, payload |-> r[2], decodable |-> r[1] = "Ok", fds |-> w.fds]

\* the requests put on the wire
WireRequests ==
    WaitRequests \cup
    { [tag |-> "PtyReq", height_rows |-> 24, width_chars |-> w,
       width_px |-> 0, height_px |-> 0, term_modes |-> Zeros(n)] :
        w \in {80, 200}, n \in {0, 1, BufSize} }

\* the number of bytes that follow the request in its datagram
Paddings == {0, 1, BufSize - 1, BufSize}

\* sendmsg on the peer's socket: a request's bytes, and bytes after them
sendmsg ==
    /\ wire = None
    /\ \E req \in WireRequests, pad \in Paddings :
          wire' = Some([bytes |-> to_allocvec_request(req) \o Zeros(pad),
                        fds |-> <<>>])
    /\ UNCHANGED <<received, rpc_vars, driver_vars>>

\* receive_with_fds on the datagram in the socket
receive ==
    /\ wire # None
    /\ wire' = None
    /\ received' = Some([len |-> Len(wire[1].bytes),
                         result |-> receive_with_fds(Datagram(wire[1]))])
    /\ UNCHANGED <<rpc_vars, driver_vars>>

NextTransport == sendmsg \/ receive

SpecTransport == Init /\ [][NextTransport]_vars

-----------------------------------------------------------------------------
(* The client connection driver of ssh-tokio (src/lib/ssh-tokio/src/          *)
(* client.rs): ClientConnection::progress, the channel table, the mailboxes,  *)
(* and the handles the application holds (PendingChannel, Channel).           *)
(*                                                                            *)
(* The protocol state machine (ssh_protocol::ClientConnection) is not part of *)
(* this source: it is the record `proto`, which says what the driver can ask  *)
(* it (auth(), channels(), user_requests(), next_channel_update()), and what  *)
(* a call of recv_bytes may do to it is chosen by the peer's bytes.           *)
(* progress() is taken in steps, one per `await` it can be suspended at.      *)

\* the number of channels the application opens
MaxChannels == 2

\* the number of reads of the stream that return
MaxReads == 5

\* the number of channel operations waiting in their mailbox at once
MaxChannelOps == 1

\* tokio::sync::mpsc::channel(15), the operations mailbox
OperationsCapacity == 15

\* tokio::sync::mpsc::channel(15), the channel operations mailbox
ChannelOpsCapacity == 15

\* tokio::sync::mpsc::channel(10), the updates mailbox of a channel
UpdatesCapacity == 10

\* proto.auth() is Some
auth(p) == p.phase = "auth"

\* proto.channels() is Some, which is proto.is_open()
is_open(p) == p.phase = "open"

\* ssh_protocol::auth::ClientUserRequest
ClientUserRequest == {"Password", "PrivateKeySign", "Banner"}

\* ssh_protocol::ChannelUpdateKind: the two answers to a channel open, and of
\* the others a data update and the close of the channel
ChannelUpdateKind == {"Open", "OpenFailed", "Data", "Closed"}

\* the channel updates next_channel_update can return
ChannelUpdate ==
    { [number |-> n, kind |-> k,
       message |-> IF k = "OpenFailed" THEN "denied" ELSE ""] :
        n \in 0..(MaxChannels - 1), k \in ChannelUpdateKind }

\* proto.recv_bytes returning Ok: the states the peer's bytes can take the
\* state machine to (none of them, when they complete no packet)
recv_bytes(p) ==
    {p} \cup
    CASE p.phase = "kex" -> { [p EXCEPT !.phase = "auth"] }
      [] p.phase = "auth" ->
            { [p EXCEPT !.requests = Append(@, r)] : r \in ClientUserRequest }
                \cup { [p EXCEPT !.phase = "open", !.requests = <<>>] }
      [] p.phase = "open" ->
            { [p EXCEPT !.updates = Append(@, u)] : u \in ChannelUpdate }

\* the end of a progress() call
Return(ret) ==
    /\ driver_pc' = "idle"
    /\ progress_ret' = Some(ret)

\* the tasks progress() spawns for the user requests `reqs`
spawn(t, reqs) ==
    [k \in DOMAIN t |->
        t[k] + Cardinality({ i \in 1..Len(reqs) : reqs[i] = k })]

\* connect(), the `?` of its loop: the last progress() of the loop returned Err
connect_failed == progress_ret # None /\ progress_ret[1][1] = "Err"

\* connect(), its return: Err as soon as a progress() of the loop returns Err
\* (the connection is dropped with it), Ok(this) once the loop condition
\* !proto.is_open() is false
connect ==
    /\ driver_pc = "idle"
    /\ connect_pc = "loop"
    /\ IF connect_failed
       THEN connect_pc' = "Err" /\ driver_pc' = "dropped"
       ELSE is_open(proto) /\ connect_pc' = "Ok" /\ UNCHANGED driver_pc
    /\ UNCHANGED <<proto, channels, ready, updates, operations, channel_ops,
                   tasks, progress_ret, outcome, update_ret, n_reads,
                   last_update, last_op, eof, emitted, in_order, channel_pc>>
    /\ UNCHANGED <<rpc_vars, transport_vars>>

\* progress(), called by the loop of connect() while the connection is not
\* open and by the application once connect() has returned the connection;
\* from its call to the loop over the channel updates: every
\* user request of the auth substate is taken, a Password or PrivateKeySign
\* request spawns its task, a Banner is ignored
progress ==
    /\ driver_pc = "idle"
    /\ \/ connect_pc = "Ok"
       \/ connect_pc = "loop" /\ ~connect_failed /\ ~is_open(proto)
    /\ driver_pc' = "updates"
    /\ progress_ret' = None
    /\ last_update' = None
    /\ last_op' = None
    /\ IF auth(proto)
       THEN /\ tasks' = spawn(tasks, proto.requests)
            /\ proto' = [proto EXCEPT !.requests = <<>>]
       ELSE UNCHANGED <<tasks, proto>>
    /\ UNCHANGED <<channels, ready, updates, operations, channel_ops, outcome,
                   update_ret, n_reads>>
    /\ UNCHANGED <<connect_pc>>
    /\ UNCHANGED <<eof>>
    /\ UNCHANGED <<emitted, in_order>>
    /\ UNCHANGED <<channel_pc>>
    /\ UNCHANGED <<rpc_vars, transport_vars>>

\* the channel table entry of a number: "Pending", "Ready", or "Unknown" when
\* the table has none (channels.get_mut is None)
entry(chs, n) == IF n \in DOMAIN chs THEN chs[n] ELSE "Unknown"

\* channels.remove(&number), removing nothing
remove_nothing(chs, n) == chs

\* channels.remove(&number)
remove(chs, n) == [k \in (DOMAIN chs) \ {n} |-> chs[k]]

\* a handled update: the table, the oneshots and the updates mailboxes after
\* it, and whether progress() goes on (Ok) or returns an error
Handled(chs, rdy, upd, ret) ==
    [channels |-> chs, ready |-> rdy, updates |-> upd, ret |-> ret]

\* the arm of Open, with a second Open of a Ready channel let through
update_Open_again(chs, rdy, upd, u) ==
    IF entry(chs, u.number) = "Unknown"
    THEN Handled(chs, rdy, upd, Err("unknown channel"))
    ELSE Handled([chs EXCEPT ![u.number] = "Ready"],
                 [rdy EXCEPT ![u.number] = Some(Ok("()"))], upd, Ok("()"))

\* ChannelUpdateKind::Open(_)
update_Open(chs, rdy, upd, u) ==
    IF entry(chs, u.number) = "Unknown"
    THEN Handled(chs, rdy, upd, Err("unknown channel"))
    ELSE IF entry(chs, u.number) = "Pending"
    THEN Handled([chs EXCEPT ![u.number] = "Ready"],
                 [rdy EXCEPT ![u.number] = Some(Ok("()"))], upd, Ok("()"))
    ELSE Handled(chs, rdy, upd, Err("attemping to open channel twice"))

\* the arm of OpenFailed, failing the driver instead of the channel
update_OpenFailed_fatal(chs, rdy, upd, u) ==
    IF entry(chs, u.number) = "Unknown"
    THEN Handled(chs, rdy, upd, Err("unknown channel"))
    ELSE IF entry(chs, u.number) = "Pending"
    THEN Handled(remove(chs, u.number), rdy, upd, Err(u.message))
    ELSE Handled(chs, rdy, upd, Err("attemping to open channel twice"))

\* ChannelUpdateKind::OpenFailed { message, .. }
update_OpenFailed(chs, rdy, upd, u) ==
    IF entry(chs, u.number) = "Unknown"
    THEN Handled(chs, rdy, upd, Err("unknown channel"))
    ELSE IF entry(chs, u.number) = "Pending"
    THEN Handled(remove(chs, u.number),
                 [rdy EXCEPT ![u.number] = Some(Err(u.message))], upd, Ok("()"))
    ELSE Handled(chs, rdy, upd, Err("attemping to open channel twice"))

\* every other ChannelUpdateKind (the arm `_`), the update put in front of the
\* mailbox
update_other_lifo(chs, rdy, upd, u) ==
    IF entry(chs, u.number) = "Unknown"
    THEN Handled(chs, rdy, upd, Err("unknown channel"))
    ELSE IF entry(chs, u.number) = "Pending"
    THEN Handled(chs, rdy, upd, Err("channel not ready yet"))
    ELSE Handled(chs, rdy, [upd EXCEPT ![u.number] = <<u.kind>> \o @], Ok("()"))

\* every other ChannelUpdateKind (the arm `_`)
update_other(chs, rdy, upd, u) ==
    IF entry(chs, u.number) = "Unknown"
    THEN Handled(chs, rdy, upd, Err("unknown channel"))
    ELSE IF entry(chs, u.number) = "Pending"
    THEN Handled(chs, rdy, upd, Err("channel not ready yet"))
    ELSE Handled(chs, rdy, [upd EXCEPT ![u.number] = Append(@, u.kind)], Ok("()"))

\* the body of `while let Some(update) = channels.next_channel_update()`
channel_update(chs, rdy, upd, u) ==
    CASE u.kind = "Open" -> update_Open(chs, rdy, upd, u)
      [] u.kind = "OpenFailed" -> update_OpenFailed(chs, rdy, upd, u)
      [] OTHER -> update_other(chs, rdy, upd, u)

\* one turn of the loop over the channel updates; an update for a Ready
\* channel waits in updates_send.send(..).await while the mailbox is full
next_channel_update ==
    /\ driver_pc = "updates"
    /\ is_open(proto)
    /\ proto.updates # <<>>
    /\ LET u == Head(proto.updates)
           r == channel_update(channels, ready, updates, u)
           full == /\ entry(channels, u.number) = "Ready"
                   /\ u.kind \notin {"Open", "OpenFailed"}
                   /\ Len(updates[u.number]) >= UpdatesCapacity
       IN  /\ ~full
           /\ proto' = [proto EXCEPT !.updates = Tail(@)]
           /\ channels' = r.channels
           /\ ready' = r.ready
           /\ updates' = r.updates
           /\ last_update' = Some([update |-> u,
                                   pre |-> entry(channels, u.number),
                                   ret |-> r.ret])
           /\ IF r.ret[1] = "Err"
              THEN Return(r.ret)
              ELSE UNCHANGED <<driver_pc, progress_ret>>
    /\ UNCHANGED <<operations, channel_ops, tasks, outcome, update_ret, n_reads,
                   last_op>>
    /\ UNCHANGED <<connect_pc>>
    /\ UNCHANGED <<eof>>
    /\ UNCHANGED <<emitted, in_order>>
    /\ UNCHANGED <<channel_pc>>
    /\ UNCHANGED <<rpc_vars, transport_vars>>

\* the stream.write_all of send_off_data can fail
WriteOutcomes == {Ok("()"), Err("writing response")}

\* the first send_off_data of progress(), once the updates are handled
send_off_data ==
    /\ driver_pc = "updates"
    /\ ~is_open(proto) \/ proto.updates = <<>>
    /\ \E w \in WriteOutcomes :
          IF w[1] = "Err" THEN Return(w)
          ELSE /\ driver_pc' = "select"
               /\ UNCHANGED progress_ret
    /\ UNCHANGED <<proto, channels, ready, updates, operations, channel_ops,
                   tasks, outcome, update_ret, n_reads, last_update, last_op>>
    /\ UNCHANGED <<connect_pc>>
    /\ UNCHANGED <<eof>>
    /\ UNCHANGED <<emitted, in_order>>
    /\ UNCHANGED <<channel_pc>>
    /\ UNCHANGED <<rpc_vars, transport_vars>>

\* the updates of the arm `_` that a Ready channel is to receive
forwarded(chs, u) ==
    entry(chs, u.number) = "Ready" /\ u.kind \notin {"Open", "OpenFailed"}

\* history: `em` after recv_bytes took the state machine from p to q
emit(em, p, q) ==
    IF Len(q.updates) > Len(p.updates)
          /\ forwarded(channels, q.updates[Len(q.updates)])
    THEN LET u == q.updates[Len(q.updates)]
         IN  [em EXCEPT ![u.number] = Append(@, u.kind)]
    ELSE em

\* select!, the branch of stream.read: a read error, the end of the stream
\* (progress() returns Ok), or bytes for proto.recv_bytes, which takes them or
\* answers PeerError or Disconnect
ReadErrors ==
    { Err("reading from connection"),
      Err("disconnecting client after invalid operation"),
      Err("Received disconnect from server") }

select_read ==
    /\ driver_pc = "select"
    /\ IF eof
       THEN /\ Return(Ok("EOF"))
            /\ UNCHANGED <<proto, n_reads, eof, emitted>>
       ELSE /\ n_reads' = n_reads + 1
            /\ \/ \E e \in ReadErrors :
                     Return(e) /\ UNCHANGED <<proto, eof, emitted>>
               \/ Return(Ok("EOF")) /\ eof' = TRUE
                     /\ UNCHANGED <<proto, emitted>>
               \/ \E p \in recv_bytes(proto) :
                     /\ proto' = p
                     /\ emitted' = emit(emitted, proto, p)
                     /\ Return(Ok("()"))
                     /\ UNCHANGED eof
    /\ UNCHANGED in_order
    /\ UNCHANGED <<channels, ready, updates, operations, channel_ops, tasks,
                   outcome, update_ret, last_update, last_op>>
    /\ UNCHANGED <<connect_pc>>
    /\ UNCHANGED <<channel_pc>>
    /\ UNCHANGED <<rpc_vars, transport_vars>>

\* select!, the branch of channel_ops_recv.recv(): the operation goes to
\* channels.do_operation (a channel operation exists only once the connection
\* is open, so the expect does not panic)
select_channel_op ==
    /\ driver_pc = "select"
    /\ channel_ops # <<>>
    /\ is_open(proto)
    /\ channel_ops' = Tail(channel_ops)
    /\ Return(Ok("()"))
    /\ UNCHANGED <<proto, channels, ready, updates, operations, tasks, outcome,
                   update_ret, n_reads, last_update, last_op>>
    /\ UNCHANGED <<connect_pc>>
    /\ UNCHANGED <<eof>>
    /\ UNCHANGED <<emitted, in_order>>
    /\ UNCHANGED <<channel_pc>>
    /\ UNCHANGED <<rpc_vars, transport_vars>>

\* the arm of an operation, forwarding a result whatever the state machine's
\* substate is
operation_forward(p, op) ==
    IF op.result[1] = "Err"
    THEN [forwarded |-> FALSE, ret |-> op.result]
    ELSE [forwarded |-> TRUE, ret |-> Ok("()")]

\* the arm of an operation in the select!: whether the result is forwarded to
\* the auth substate, and whether progress() goes on (Ok) or returns the error
\* of the result
operation(p, op) ==
    IF op.tag = "PasswordEntered"
    THEN IF auth(p)
         THEN IF op.result[1] = "Err"
              THEN [forwarded |-> FALSE, ret |-> op.result]
              ELSE [forwarded |-> TRUE, ret |-> Ok("()")]
         ELSE [forwarded |-> FALSE, ret |-> Ok("()")]
    ELSE IF op.result[1] = "Err"
         THEN [forwarded |-> FALSE, ret |-> op.result]
         ELSE [forwarded |-> auth(p), ret |-> Ok("()")]

\* select!, the branch of operations_recv.recv(), and the send_off_data that
\* follows the operation
select_operation ==
    /\ driver_pc = "select"
    /\ operations # <<>>
    /\ operations' = Tail(operations)
    /\ LET op == Head(operations)
           r == operation(proto, op)
       IN  \E w \in WriteOutcomes :
              /\ Return(IF r.ret[1] = "Err" THEN r.ret ELSE w)
              /\ last_op' = Some([op |-> op, auth |-> auth(proto),
                                  forwarded |-> r.forwarded, ret |-> r.ret])
    /\ UNCHANGED <<proto, channels, ready, updates, channel_ops, tasks, outcome,
                   update_ret, n_reads, last_update>>
    /\ UNCHANGED <<connect_pc>>
    /\ UNCHANGED <<eof>>
    /\ UNCHANGED <<emitted, in_order>>
    /\ UNCHANGED <<channel_pc>>
    /\ UNCHANGED <<rpc_vars, transport_vars>>

\* a task spawned by progress(): prompt_password or sign_pubkey answers Ok or
\* Err and the result goes to the operations mailbox (the send waits while
\* the mailbox is full, and is given up when the connection is gone)
OperationOf(kind) == IF kind = "Password" THEN "PasswordEntered" ELSE "Signature"

spawned_task(kind) ==
    /\ tasks[kind] > 0
    /\ tasks' = [tasks EXCEPT ![kind] = @ - 1]
    /\ IF driver_pc = "dropped" THEN UNCHANGED operations
       ELSE /\ Len(operations) < OperationsCapacity
            /\ \E res \in {Ok("credential"), Err("credential failed")} :
                  operations' = Append(operations,
                                       [tag |-> OperationOf(kind), result |-> res])
    /\ UNCHANGED <<proto, channels, ready, updates, channel_ops, driver_pc,
                   progress_ret, outcome, update_ret, n_reads, last_update,
                   last_op>>
    /\ UNCHANGED <<connect_pc>>
    /\ UNCHANGED <<eof>>
    /\ UNCHANGED <<emitted, in_order>>
    /\ UNCHANGED <<channel_pc>>
    /\ UNCHANGED <<rpc_vars, transport_vars>>

\* channels.create_channel(kind): the state machine numbers its channels in
\* the order it creates them
create_channel(p) == p.next_channel

\* ClientConnection::open_channel, between two calls of progress() (it takes
\* &mut self), once the connection is open (it panics before)
open_channel ==
    /\ driver_pc = "idle"
    /\ connect_pc = "Ok"
    /\ is_open(proto)
    /\ proto.next_channel < MaxChannels
    /\ LET number == create_channel(proto)
       IN  /\ proto' = [proto EXCEPT !.next_channel = @ + 1]
           /\ channels' = (number :> "Pending") @@ channels
           /\ ready' = (number :> None) @@ ready
           /\ updates' = (number :> <<>>) @@ updates
           /\ outcome' = (number :> None) @@ outcome
           /\ update_ret' = (number :> None) @@ update_ret
           /\ emitted' = (number :> <<>>) @@ emitted
           /\ channel_pc' = (number :> "idle") @@ channel_pc
    /\ UNCHANGED <<operations, channel_ops, tasks, driver_pc, progress_ret,
                   n_reads, last_update, last_op, in_order>>
    /\ UNCHANGED <<connect_pc>>
    /\ UNCHANGED <<eof>>
    /\ UNCHANGED <<rpc_vars, transport_vars>>

\* ready_send of channel n is gone: the table holds no Pending entry of n
ready_send_dropped(n) == entry(channels, n) # "Pending"

\* PendingChannel::wait_ready, when ready_recv resolves: with the value sent,
\* or with an error once ready_send is dropped without one
wait_ready(n) ==
    /\ outcome[n] = None
    /\ ready[n] # None \/ ready_send_dropped(n)
    /\ outcome' = [outcome EXCEPT ![n] =
                      Some(IF ready[n] = None THEN Err(None)
                           ELSE IF ready[n][1][1] = "Ok" THEN Ok(n)
                           ELSE Err(Some(ready[n][1][2])))]
    /\ UNCHANGED <<proto, channels, ready, updates, operations, channel_ops,
                   tasks, driver_pc, progress_ret, update_ret, n_reads,
                   last_update, last_op>>
    /\ UNCHANGED <<connect_pc>>
    /\ UNCHANGED <<eof>>
    /\ UNCHANGED <<emitted, in_order>>
    /\ UNCHANGED <<channel_pc>>
    /\ UNCHANGED <<rpc_vars, transport_vars>>

\* every updates_send of channel n is gone: the table has no entry of n
updates_send_dropped(n) == entry(channels, n) = "Unknown"

\* Channel::next_update, when updates_recv.recv() resolves: with the oldest
\* update of the mailbox, or with None once the mailbox is empty and every
\* sender is dropped
next_update(n) ==
    /\ outcome[n] = Some(Ok(n))
    /\ channel_pc[n] = "idle"
    /\ IF updates[n] # <<>>
       THEN /\ update_ret' = [update_ret EXCEPT ![n] = Some(Ok(Head(updates[n])))]
            /\ updates' = [updates EXCEPT ![n] = Tail(@)]
            /\ in_order' = (in_order /\ emitted[n] # <<>>
                                     /\ Head(emitted[n]) = Head(updates[n]))
            /\ emitted' = [emitted EXCEPT ![n] =
                               IF @ = <<>> THEN @ ELSE Tail(@)]
       ELSE /\ updates_send_dropped(n)
            /\ update_ret' = [update_ret EXCEPT ![n] =
                                 Some(Err("channel has been closed"))]
            /\ UNCHANGED <<updates, emitted, in_order>>
    /\ UNCHANGED <<proto, channels, ready, operations, channel_ops, tasks,
                   driver_pc, progress_ret, outcome, n_reads, last_update,
                   last_op>>
    /\ UNCHANGED <<connect_pc>>
    /\ UNCHANGED <<eof>>
    /\ UNCHANGED <<channel_pc>>
    /\ UNCHANGED <<rpc_vars, transport_vars>>

\* Channel::send_operation, while the connection lives: ops_send.send(..)
\* puts the operation in the mailbox, or suspends the owner of the Channel
\* while the mailbox is full
send_operation(n) ==
    /\ outcome[n] = Some(Ok(n))
    /\ channel_pc[n] = "idle"
    /\ driver_pc # "dropped"
    /\ IF Len(channel_ops) < ChannelOpsCapacity
       THEN /\ channel_ops' = Append(channel_ops, [number |-> n])
            /\ UNCHANGED channel_pc
       ELSE /\ channel_pc' = [channel_pc EXCEPT ![n] = "send_operation"]
            /\ UNCHANGED channel_ops
    /\ UNCHANGED <<proto, channels, ready, updates, operations, tasks, driver_pc,
                   progress_ret, outcome, update_ret, n_reads, last_update,
                   last_op>>
    /\ UNCHANGED <<connect_pc>>
    /\ UNCHANGED <<eof>>
    /\ UNCHANGED <<emitted, in_order>>
    /\ UNCHANGED <<rpc_vars, transport_vars>>

\* Channel::send_operation, resumed: ops_send.send(..) resolves once the
\* mailbox has room again
send_operation_resumed(n) ==
    /\ channel_pc[n] = "send_operation"
    /\ driver_pc # "dropped"
    /\ Len(channel_ops) < ChannelOpsCapacity
    /\ channel_ops' = Append(channel_ops, [number |-> n])
    /\ channel_pc' = [channel_pc EXCEPT ![n] = "idle"]
    /\ UNCHANGED <<proto, channels, ready, updates, operations, tasks, driver_pc,
                   progress_ret, outcome, update_ret, n_reads, last_update,
                   last_op>>
    /\ UNCHANGED <<connect_pc>>
    /\ UNCHANGED <<eof>>
    /\ UNCHANGED <<emitted, in_order>>
    /\ UNCHANGED <<rpc_vars, transport_vars>>

\* the application drops the ClientConnection between two calls of
\* progress(): the table goes, and every sender it holds with it
drop ==
    /\ driver_pc = "idle"
    /\ connect_pc = "Ok"
    /\ driver_pc' = "dropped"
    /\ channels' = [n \in {} |-> "Pending"]
    /\ UNCHANGED <<proto, ready, updates, operations, channel_ops, tasks,
                   progress_ret, outcome, update_ret, n_reads, last_update,
                   last_op>>
    /\ UNCHANGED <<connect_pc>>
    /\ UNCHANGED <<eof>>
    /\ UNCHANGED <<emitted, in_order>>
    /\ UNCHANGED <<channel_pc>>
    /\ UNCHANGED <<rpc_vars, transport_vars>>

NextDriver ==
    \/ connect
    \/ progress
    \/ next_channel_update
    \/ send_off_data
    \/ (eof \/ n_reads < MaxReads) /\ select_read
    \/ select_channel_op
    \/ select_operation
    \/ \E kind \in {"Password", "PrivateKeySign"} : spawned_task(kind)
    \/ open_channel
    \/ \E n \in DOMAIN outcome : wait_ready(n)
    \/ \E n \in DOMAIN outcome : next_update(n)
    \/ \E n \in DOMAIN outcome :
          Len(channel_ops) < MaxChannelOps /\ send_operation(n)
    \/ drop

SpecDriver == Init /\ [][NextDriver]_vars

\* the number of reads of the stream that return while the mailboxes fill
MaxBurst == 14

\* select!, the branch of stream.read, with a peer that completes the
\* handshake, confirms the channel the application opens, and from then on
\* sends data for it
select_read_data ==
    /\ n_reads < MaxBurst
    /\ select_read
    /\ progress_ret' = Some(Ok("()"))
    /\ proto' # proto
    /\ proto'.requests = <<>>
    /\ proto'.updates # <<>> =>
          LET u == proto'.updates[Len(proto'.updates)]
          IN  \/ entry(channels, u.number) = "Pending" /\ u.kind = "Open"
              \/ entry(channels, u.number) = "Ready" /\ u.kind = "Data"

\* the driver and the owner of one channel, with the peer of select_read_data:
\* the connection is made, the channel opened, and the owner sends operations
\* and takes updates as it likes
NextMailboxes ==
    \/ connect
    \/ progress
    \/ next_channel_update
    \/ send_off_data
    \/ select_read_data
    \/ select_channel_op
    \/ proto.next_channel = 0 /\ open_channel
    \/ \E n \in DOMAIN outcome : wait_ready(n)
    \/ \E n \in DOMAIN outcome : next_update(n)
    \/ \E n \in DOMAIN outcome : send_operation(n)
    \/ \E n \in DOMAIN outcome : send_operation_resumed(n)

SpecMailboxes == Init /\ [][NextMailboxes]_vars

-----------------------------------------------------------------------------
(* The claims.  `last` is the request serviced last: its number and content,
   the Server before it (pre), the replies sent for it in order, the handler's
   Result, the child spawned and the PTY allocated for it. *)

Serviced == last # None

L == last[1]

\* every reply of the request serviced last is an Err reply
AllErr == \A i \in 1..Len(L.replies) : L.replies[i].payload[1] = "Err"

\* the request serviced last was answered with exactly the reply `resp`, no FDs
AnsweredOnce(resp) ==
    /\ Len(L.replies) = 1
    /\ L.replies[1].payload = resp
    /\ L.replies[1].fds = <<>>

\* C1: authenticated_user changes at most once, from unset to a user: no
\* request changes it once it is set, and a VerifySignature serviced while it
\* is set is rejected (it is answered with an Err) and leaves it unchanged.
C1_AuthenticatedAtMostOnce ==
    Serviced /\ L.pre.authenticated_user # None =>
        /\ authenticated_user = L.pre.authenticated_user
        /\ L.req.tag = "VerifySignature" =>
              Len(L.replies) >= 1 /\ L.replies[1].payload[1] = "Err"

\* C2: every child spawned by a Shell request runs with the uid, gid, home
\* directory and shell of the user stored by the first successful
\* VerifySignature.
C2_ChildRunsAsFirstUser ==
    Serviced /\ L.child # None =>
        /\ first_user # None
        /\ L.child[1].cmd.uid = first_user[1].uid
        /\ L.child[1].cmd.gid = first_user[1].gid
        /\ L.child[1].cmd.cwd = first_user[1].home
        /\ L.child[1].cmd.program = first_user[1].shell

\* C3: a Shell request is answered Ok, or spawns a child, only if some earlier
\* VerifySignature was answered Ok(true); a Shell request serviced with no
\* authenticated user is answered Err("unauthenticated") and spawns nothing.
C3_ShellNeedsVerifiedUser ==
    Serviced /\ L.req.tag = "Shell" =>
        /\ (L.child # None \/ ~AllErr) => verified_ok
        /\ L.pre.authenticated_user = None =>
              /\ AnsweredOnce(Err("unauthenticated"))
              /\ L.child = None
              /\ n_spawned = 0

\* C3, its case: a Shell request was answered Ok and its child runs
C3_Witness ==
    /\ Serviced
    /\ L.req.tag = "Shell"
    /\ L.child # None
    /\ Len(L.replies) = 1
    /\ L.replies[1].payload = Ok("()")

\* C4: every request the monitor services to the end is answered with exactly
\* one datagram; a VerifySignature serviced while a user is authenticated is
\* answered once, with Err, and the verifier is not called.
C4_ExactlyOneReply ==
    Serviced /\ L.ret = "Ok" =>
        /\ Len(L.replies) = 1
        /\ (L.req.tag = "VerifySignature" /\ L.pre.authenticated_user # None) =>
              /\ L.replies[1].payload[1] = "Err"
              /\ ~L.verifier

\* C5: the Client makes its calls one at a time, and what the n-th call
\* returns was made from the reply the monitor sent for the n-th request.
C5_ReplyOfTheSameCall ==
    client_ret # None => client_ret[1].for = client_ret[1].call

\* the request `req` finds its precondition violated in the Server `pre`
PreconditionViolated(pre, req) ==
    \/ req.tag = "Sign" /\ req.public_key \notin host_keys
    \/ req.tag = "VerifySignature" /\ pre.authenticated_user # None
    \/ req.tag = "PtyReq" /\ pre.pty_user # None
    \/ req.tag = "Shell" /\
         \/ pre.authenticated_user = None
         \/ pre.shell_process # None
         \/ (req.pty_term # None) # (pre.pty_user # None)
    \/ req.tag = "Wait" /\ pre.shell_process = None

\* C6: a request whose precondition is violated is answered with an Err reply,
\* its handler does not fail, Server::process has not returned, and a request
\* waiting in the socket can be serviced.
C6_ViolationAnsweredErr ==
    Serviced /\ PreconditionViolated(L.pre, L.req) =>
        /\ Len(L.replies) >= 1
        /\ L.replies[1].payload[1] = "Err"
        /\ L.replies[1].fds = <<>>
        /\ L.ret = "Ok"
        /\ running
        /\ to_server # <<>> => ENABLED process

\* C6, its case: a Wait with no child was answered Err as the second request or
\* later, and the next request is waiting in the socket of the running monitor
C6_Witness ==
    /\ Serviced
    /\ L.req.tag = "Wait"
    /\ L.pre.shell_process = None
    /\ L.seq >= 2
    /\ L.replies[1].payload = Err("no child running")
    /\ to_server # <<>>
    /\ running

\* the descriptors a reply to the request serviced last may carry
PermittedFds ==
    IF L.req.tag = "PtyReq" /\ L.pty # None
    THEN { L.pty[1].controller }
    ELSE IF L.req.tag = "Shell" /\ L.child # None /\ L.child[1].cmd.stdio = "piped"
    THEN { Fd(k, L.child[1].id) : k \in {"stdin", "stdout", "stderr"} }
    ELSE {}

\* C7: every descriptor attached to a reply is the controller end of the PTY
\* allocated by that PtyReq or a stdin/stdout/stderr pipe end of the child
\* spawned by that non-PTY Shell; never the subordinate PTY end or the
\* monitor's socket.
C7_OnlyPermittedFds ==
    Serviced =>
        \A i \in 1..Len(L.replies) : \A j \in 1..Len(L.replies[i].fds) :
            /\ L.replies[i].fds[j] \in PermittedFds
            /\ L.replies[i].fds[j].kind \notin {"pty_user", "server_socket"}
            /\ pty_user # None => L.replies[i].fds[j] # pty_user[1]

\* C7, its case: a PtyReq was answered with a descriptor and the monitor holds
\* the subordinate end
C7_Witness ==
    /\ Serviced
    /\ L.req.tag = "PtyReq"
    /\ Len(L.replies) = 1
    /\ Len(L.replies[1].fds) = 1
    /\ pty_user # None

\* C8: a PtyReq reply carries 0 or 1 FD; a Shell reply carries 0 or 3, and 3
\* only when the request had no pty_term; the replies to Sign, CheckPublicKey,
\* VerifySignature and Wait carry none; no reply carries more than three.
C8_FdCounts ==
    Serviced =>
        \A i \in 1..Len(L.replies) :
            LET n == Len(L.replies[i].fds) IN
            /\ n <= MaxFds
            /\ L.req.tag = "PtyReq" => n \in {0, 1}
            /\ L.req.tag = "Shell" => n \in {0, 3} /\ (n = 3 => L.req.pty_term = None)
            /\ L.req.tag \in {"Sign", "CheckPublicKey", "VerifySignature", "Wait"} => n = 0

\* C8, its case: a Shell request without pty_term was answered Ok with the
\* three descriptors of its child
C8_Witness ==
    /\ Serviced
    /\ L.req.tag = "Shell"
    /\ L.req.pty_term = None
    /\ L.child # None
    /\ Len(L.replies) = 1
    /\ L.replies[1].payload = Ok("()")
    /\ Len(L.replies[1].fds) = 3

\* C9: the monitor has at most one child that it spawned and has not waited
\* for, and it is the one in shell_process; a Shell request serviced while
\* shell_process is set is answered with one Err and spawns nothing.
C9_OneChildAtATime ==
    /\ n_live <= 1
    /\ (n_live = 1) = (shell_process # None)
    /\ Serviced /\ L.req.tag = "Shell" /\ L.pre.shell_process # None =>
          /\ Len(L.replies) = 1
          /\ AllErr
          /\ L.replies[1].fds = <<>>
          /\ L.child = None
          /\ shell_process = L.pre.shell_process

\* C9, its case: after a first child on the PTY was waited for, a second Shell
\* request with a pty_term has spawned the second child
C9_Witness ==
    /\ Serviced
    /\ L.req.tag = "Shell"
    /\ L.req.pty_term # None
    /\ L.child # None
    /\ n_spawned = 2
    /\ n_live = 1

\* C10: a Shell request of an authenticated client spawns a child only if
\* (pty_term is present) = (the monitor holds a PTY); on disagreement the reply
\* is one Err without FDs, no child is spawned and shell_process is left as it
\* was (unset, when it was unset).
C10_PtyAgreement ==
    Serviced /\ L.req.tag = "Shell" /\ L.pre.authenticated_user # None =>
        /\ (L.child # None \/ ~AllErr) =>
              (L.req.pty_term # None) = (L.pre.pty_user # None)
        /\ (L.req.pty_term # None) # (L.pre.pty_user # None) =>
              /\ Len(L.replies) = 1
              /\ AllErr
              /\ L.replies[1].fds = <<>>
              /\ L.child = None
              /\ shell_process = L.pre.shell_process
              /\ L.pre.shell_process = None => shell_process = None

\* C10, its case: a Shell request without pty_term reached the monitor that
\* holds a PTY and runs no child, and was answered with the mismatch
C10_Witness ==
    /\ Serviced
    /\ L.req.tag = "Shell"
    /\ L.req.pty_term = None
    /\ L.pre.pty_user # None
    /\ L.pre.shell_process = None
    /\ L.pre.authenticated_user # None
    /\ AnsweredOnce(Err("Mismatch between client and server PTY requests"))

\* C11: a request repeated after its own success is refused and changes nothing.
\* A Wait that found a child leaves none behind, so the Wait that follows it
\* (no Shell in between) is serviced with no child and is answered by the one
\* reply Err("no child running"); a PtyReq answered Ok leaves pty_user set, so
\* the PtyReq that follows it is answered by the one reply
\* Err("already requests pty") with no descriptors; neither refused request
\* changes the server's state.
C11_RepeatedRequestRefused ==
    Serviced =>
        /\ (L.req.tag = "Wait" /\ L.pre.shell_process # None /\ L.ret = "Ok")
              => shell_process = None
        /\ (L.req.tag = "Wait" /\ L.pre.shell_process = None)
              => /\ AnsweredOnce(Err("no child running"))
                 /\ L.ret = "Ok"
                 /\ Self = L.pre
        /\ (L.req.tag = "PtyReq" /\ L.replies # <<>> /\ ~AllErr)
              => pty_user # None
        /\ (L.req.tag = "PtyReq" /\ L.pre.pty_user # None)
              => /\ AnsweredOnce(Err("already requests pty"))
                 /\ L.ret = "Ok"
                 /\ L.pty = None
                 /\ Self = L.pre

\* a Wait refused after the only child ever spawned was waited for
C11_Witness ==
    /\ Serviced
    /\ L.req.tag = "Wait"
    /\ AnsweredOnce(Err("no child running"))
    /\ n_spawned = 1
    /\ n_live = 0

\* C20: the environment of a spawned child holds the client's pairs plus USER
\* and, with a PTY, TERM, and nothing else; USER is the name of the user the
\* server held authenticated when it serviced the Shell, and TERM is the
\* request's pty_term, whatever keys the client's list names.
C20_ChildEnvironment ==
    (Serviced /\ L.req.tag = "Shell" /\ L.child # None) =>
        LET env == L.child[1].cmd.env
            req == L.req
            user == L.pre.authenticated_user[1]
            keys == { req.env[i][1] : i \in 1..Len(req.env) }
        IN  /\ DOMAIN env = keys \cup {"USER"}
                               \cup (IF req.pty_term # None THEN {"TERM"} ELSE {})
            /\ env["USER"] = user.name
            /\ req.pty_term # None => env["TERM"] = req.pty_term[1]
            /\ \A i \in 1..Len(req.env) :
                  req.env[i][1] \notin {"USER", "TERM"}
                      => env[req.env[i][1]] = req.env[i][2]

\* the number of descriptors the reply to `req` is to carry
FdContract(req) ==
    CASE req.tag = "PtyReq" -> 1
      [] req.tag = "Shell" -> IF req.pty_term = None THEN MaxFds ELSE 0
      [] OTHER -> 0

\* C17: a Client call returns a result (Ok) only when the reply it received
\* carried the number of descriptors of its operation's contract: one for
\* PtyReq, three for a Shell without pty_term, none otherwise; with any other
\* count the call fails.
C17_FdCountChecked ==
    (client_ret # None /\ client_ret[1].result[1] = "Ok")
        => client_ret[1].nfds = FdContract(client_call[1].req)

\* C18: receive_with_fds returns an error for every datagram whose payload is
\* longer than the 1024 bytes of its buffer; it returns no message decoded from
\* the first 1024 bytes of a longer payload.
C18_TruncationReported ==
    (received # None /\ received[1].len > BufSize)
        => received[1].result[1] = "Err"

\* C12: wait_ready of an opened channel returns one outcome, and it is the one
\* the channel's oneshot decides: Ok(channel) when Ok(()) was sent,
\* Err(Some(message)) when Err(message) was sent, Err(None) when the sender
\* went without sending; once it has returned, the channel table holds no
\* Pending entry of that channel number.
C12_OneOutcomeNoPending ==
    \A n \in DOMAIN outcome :
        outcome[n] # None =>
            /\ entry(channels, n) # "Pending"
            /\ outcome[n][1] =
                  (IF ready[n] = None THEN Err(None)
                   ELSE IF ready[n][1][1] = "Ok" THEN Ok(n)
                   ELSE Err(Some(ready[n][1][2])))
            /\ ready[n] # None => ready[n][1] \in {Ok("()"), Err("denied")}

\* one channel's wait_ready returned Ok(channel), the other's
\* Err(Some(message))
C12_Witness ==
    \E n, m \in DOMAIN outcome :
        /\ outcome[n] = Some(Ok(n))
        /\ outcome[m] = Some(Err(Some("denied")))

\* a channel update that is a protocol violation for the entry it finds
Violation(lu) ==
    \/ lu.pre = "Unknown"
    \/ lu.pre = "Ready" /\ lu.update.kind \in {"Open", "OpenFailed"}
    \/ lu.pre = "Pending" /\ lu.update.kind \notin {"Open", "OpenFailed"}

\* C13: no step takes a channel table entry from Ready to Pending, and none
\* brings back the entry of a channel number that was opened and removed, so
\* an entry goes from Pending to Ready at most once; and an Open or
\* OpenFailed update for a Ready channel, any other update for a Pending
\* channel, and any update for a number the table does not hold make the
\* progress() call that handles it return an error.
C13_PendingToReadyOnce ==
    /\ [][ \A n \in DOMAIN outcome :
              /\ entry(channels, n) = "Ready" => entry(channels', n) # "Pending"
              /\ entry(channels, n) = "Unknown" => entry(channels', n) = "Unknown"
         ]_vars
    /\ [](last_update # None /\ Violation(last_update[1])
            => /\ last_update[1].ret[1] = "Err"
               /\ progress_ret = Some(last_update[1].ret))

\* an Open update found its channel Ready and progress() returned the error
C13_Witness ==
    /\ last_update # None
    /\ last_update[1].update.kind = "Open"
    /\ last_update[1].pre = "Ready"
    /\ progress_ret = Some(Err("attemping to open channel twice"))
    /\ driver_pc = "idle"

\* C14: an OpenFailed{message} update for a Pending channel removes the
\* channel's entry from the table and sends Err(message) on its oneshot, so
\* that wait_ready returns Err(Some(message)) with that message; handling the
\* update does not make progress() return an error.
C14_OpenFailedSignalled ==
    (last_update # None /\ last_update[1].update.kind = "OpenFailed"
                        /\ last_update[1].pre = "Pending") =>
        LET u == last_update[1].update IN
        /\ entry(channels, u.number) = "Unknown"
        /\ ready[u.number] = Some(Err(u.message))
        /\ outcome[u.number] \in {None, Some(Err(Some(u.message)))}
        /\ last_update[1].ret[1] = "Ok"
        /\ progress_ret # None => progress_ret[1] # Err(u.message)

\* the OpenFailed update handled last found its channel Pending, and wait_ready
\* has returned its message
C14_Witness ==
    /\ last_update # None
    /\ last_update[1].update.kind = "OpenFailed"
    /\ last_update[1].pre = "Pending"
    /\ outcome[last_update[1].update.number] = Some(Err(Some("denied")))

\* C15: the driver removes a channel's table entry when the channel fails to
\* open and when it is closed: once the Closed update of a Ready channel is
\* handled the table has no entry of the channel, every sender of its updates
\* mailbox is dropped, and a next_update that finds the mailbox empty after
\* the Closed update returns the terminal error.
C15_RemovedOnFailureAndClose ==
    /\ (last_update # None /\ last_update[1].ret[1] = "Ok"
           /\ \/ last_update[1].update.kind = "OpenFailed"
              \/ last_update[1].update.kind = "Closed")
          => entry(channels, last_update[1].update.number) = "Unknown"
    /\ \A n \in DOMAIN update_ret :
          update_ret[n] = Some(Ok("Closed")) => updates_send_dropped(n)

\* C16: a progress() call that takes a failed result from the operations
\* mailbox, of the password prompt or of the signer, returns an error, whether
\* or not the protocol state machine still has its auth substate.
C16_FailedCredentialIsFatal ==
    (last_op # None /\ last_op[1].op.result[1] = "Err")
        => /\ progress_ret # None
           /\ progress_ret[1][1] = "Err"

C22_NoStateChange ==
    Serviced =>
        /\ (L.req.tag \in {"Sign", "CheckPublicKey"}) => Self = L.pre
        /\ (L.req.tag = "VerifySignature" /\ L.replies # <<>>
               /\ L.replies[1].payload \in
                     {Ok("false")} \cup { Err(m) : m \in
                         {"user already authenticated", "verify_signature failed"} })
              => Self = L.pre
        /\ L.req.tag = "Sign"
              => AnsweredOnce(IF L.req.public_key \in host_keys
                              THEN Ok("signature")
                              ELSE Err("missing private key"))
        /\ L.req.tag = "CheckPublicKey"
              => \E c \in check_pubkey(L.req) : AnsweredOnce(c)

\* C25: the PTY the monitor allocates for a PtyReq whose four sizes are below
\* 65536 has the window size of the request: as many rows as height_rows, as
\* many columns as width_chars, and the pixel sizes width_px and height_px.
C25_WindowSize ==
    (Serviced /\ L.req.tag = "PtyReq" /\ L.pty # None
        /\ \A v \in {L.req.height_rows, L.req.width_chars,
                     L.req.width_px, L.req.height_px} : v < U16)
        => LET ws == L.pty[1].winsize IN
           /\ ws.ws_row = L.req.height_rows
           /\ ws.ws_col = L.req.width_chars
           /\ ws.ws_xpixel = L.req.width_px
           /\ ws.ws_ypixel = L.req.height_px

\* the driver task: connect() and the progress() calls, which the runtime
\* polls again whenever one of their steps can be taken
driver_task ==
    \/ connect
    \/ progress
    \/ next_channel_update
    \/ send_off_data
    \/ (eof \/ n_reads < MaxReads) /\ select_read
    \/ select_channel_op
    \/ select_operation

\* the driver under the scheduling of the runtime: a task that can take a
\* step is polled, it is never left waiting forever
SpecDriverFair == SpecDriver /\ WF_vars(driver_task)

\* C23: connect eventually returns when the stream reaches EOF before the
\* handshake is complete: once a read has returned 0 bytes inside the loop of
\* connect, the loop ends (connect returns) instead of calling progress()
\* again forever
C23_ConnectReturnsAtEof ==
    (eof /\ connect_pc = "loop") ~> (connect_pc # "loop")

\* the updates the driver has taken from recv_bytes for Ready channel n and
\* not handled yet, oldest first
pending(n) ==
    LET RECURSIVE kinds(_)
        kinds(q) ==
            IF q = <<>> THEN <<>>
            ELSE IF Head(q).number = n /\ forwarded(channels, Head(q))
            THEN <<Head(q).kind>> \o kinds(Tail(q))
            ELSE kinds(Tail(q))
    IN  kinds(proto.updates)

\* C21: for every Ready channel, successive next_update calls return exactly
\* the updates other than the answers to the open (Open, OpenFailed) that the
\* state machine emitted for that channel number, in the order it emitted
\* them, none skipped and none duplicated: every next_update has returned the
\* oldest emitted update not returned before, and the emitted updates still to
\* be returned are the mailbox followed by the updates the driver has yet to
\* handle (only the mailbox is left of them once the driver is dropped)
C21_UpdatesInOrder ==
    /\ in_order
    /\ \A n \in DOMAIN emitted :
          IF driver_pc = "dropped"
          THEN IsPrefix(updates[n], emitted[n])
          ELSE emitted[n] = updates[n] \o pending(n)

\* two updates of different kinds were emitted for a Ready channel before its
\* owner asked for one; next_update has returned the first, the second waits
C21_Witness ==
    \E n \in DOMAIN emitted :
        /\ update_ret[n] = Some(Ok("Closed"))
        /\ updates[n] = <<"Data">>
        /\ emitted[n] = <<"Data">>

\* progress() is suspended in updates_send.send(..).await: the update it is
\* handling goes to Ready channel n, whose updates mailbox is full
driver_suspended(n) ==
    /\ driver_pc = "updates"
    /\ is_open(proto)
    /\ proto.updates # <<>>
    /\ Head(proto.updates).number = n
    /\ forwarded(channels, Head(proto.updates))
    /\ Len(updates[n]) >= UpdatesCapacity

\* the owner of channel n is suspended in send_operation: the channel
\* operations mailbox is full
owner_suspended(n) ==
    /\ channel_pc[n] = "send_operation"
    /\ Len(channel_ops) >= ChannelOpsCapacity

\* C24: the driver task and the task that owns a Channel never deadlock on the
\* two bounded mailboxes: in no reachable state is progress() suspended on the
\* full updates mailbox of a channel while the owner of that channel is
\* suspended in send_operation on the full channel operations mailbox
C24_NoMailboxDeadlock ==
    \A n \in DOMAIN channel_pc : ~(driver_suspended(n) /\ owner_suspended(n))

====
